---- MODULE Spec2Model ----
(***************************************************************************)
(* A model of the local logic of the Azure AI agent-service demo scripts:  *)
(*   - 3_long_term_mem.py : the ChatMessages table and its three helpers   *)
(*   - 3_short_term_mem.py: manage_messages and its in-memory history      *)
(*   - 2_function_sequencing*.py: the tool wrappers and the tracing        *)
(*     decorator                                                           *)
(*   - 1_external_api_call.py: fetch_weather and the linear agent scripts  *)
(* Each part has its own specification over the shared variable tuple; the *)
(* variables of the other parts stay at their initial values.              *)
(***************************************************************************)
EXTENDS Integers, Sequences, FiniteSets, TLC

VARIABLES
    \* ---- 3_long_term_mem.py ----
    table,       \* committed rows of ChatMessages, in insertion order
    committed,   \* number of rows made durable by conn.commit()
    nextId,      \* the SERIAL sequence of column id
    clock,       \* the database server's clock (CURRENT_TIMESTAMP source)
    txnOpen,     \* psycopg2 has an open transaction on conn
    txnStart,    \* start time of the open transaction
    nThreads,    \* remote threads created through project_client.agents
    dbOp,        \* the helper called last, with its arguments
    dbRet,       \* what that helper returned
    \* ---- 3_short_term_mem.py ----
    message_history,  \* the module-level list message_history
    mmInputs,         \* the user_input of every manage_messages call so far
    summaryCalls,     \* ordinals of the calls that posted a summary message
    lastPosted,       \* contents the last call posted to the thread, in order
    mmCrashed,        \* create_message raised: the script has stopped
    \* ---- 2_function_sequencing.py, 2_function_sequencing_with_decorators.py ----
    toolOp,      \* the tool function called last, with its keyword arguments
    toolLog,     \* what that call did, in order: span attributes set,
                 \* functions invoked, HTTP requests sent
    toolRet,     \* what that call returned (or raised)
    spanAttrs,   \* attributes of the current span
    \* ---- 1_external_api_call.py: fetch_weather ----
    fwOp,        \* the last fetch_weather call: location and the answers
                 \* the two HTTP requests got
    fwLog,       \* the HTTP requests that call sent, in order
    fwRet,       \* what it returned (or raised)
    \* ---- the function-calling agent scripts ----
    script,      \* which script runs
    pc,          \* number of remote calls of the script that have returned
    inFlight,    \* a remote call has been issued and has not returned yet
    remoteLog,   \* remote calls issued, returned and raised, in order
    runStatus,   \* run.status once create_and_process_run has returned
    aborted,     \* a remote call raised: the script has stopped
    \* ---- start-up of a script: environment, client ----
    env,         \* the environment after load_dotenv()
    envScript,   \* which script starts
    envPc,       \* how far start-up got, or how the script stopped
    \* ---- 3_short_term_mem.py: the conversation of the session ----
    thread,      \* the messages of the thread at the service, oldest first
    sessPc,      \* the statement the script is at
    sessI,       \* how many user inputs the loop is through
    runRet,      \* what the last run_agent call returned
    runExc,      \* an exception was raised inside the last run_agent call
    lastReply,   \* the assistant message the last run added, if any
    deleteLog,   \* the thread ids delete_thread was called with
    \* ---- 3_long_term_mem.py started twice for one user ----
    rpc,         \* per execution: the statement it is at
    rThread,     \* per execution: thread_id, 0 before it is assigned
    rTxn,        \* per execution: start time of its open transaction, 0 if none
    sawNoRow     \* per execution: the user had no row when it looked one up

dbVars == <<table, committed, nextId, clock, txnOpen, txnStart, nThreads, dbOp, dbRet>>

memVars == <<message_history, mmInputs, summaryCalls, lastPosted, mmCrashed>>

toolVars == <<toolOp, toolLog, toolRet, spanAttrs>>

fwVars == <<fwOp, fwLog, fwRet>>

scriptVars == <<script, pc, inFlight, remoteLog, runStatus, aborted>>

envVars == <<env, envScript, envPc>>

sessVars == <<thread, sessPc, sessI, runRet, runExc, lastReply, deleteLog>>

raceVars == <<rpc, rThread, rTxn, sawNoRow>>

vars == <<dbVars, memVars, toolVars, fwVars, scriptVars, envVars, sessVars, raceVars>>

None == "None"

\* ------------------------------------------------------------------------
\* Bounds of the model
\* ------------------------------------------------------------------------
MaxRows == 3
MaxThreads == 2
MaxCalls == 10

\* ------------------------------------------------------------------------
\* 3_long_term_mem.py
\* ------------------------------------------------------------------------
Users == {"user_123", "user_456"}
Roles == {"user", "assistant"}
Messages == {"m1"}
ThreadIds == 1..MaxThreads

\* A call of one of the three helpers, with its arguments
DbCall(name, u, t, r, m) ==
    [name |-> name, user_id |-> u, thread_id |-> t, role |-> r, message |-> m]

\* CREATE TABLE ChatMessages: one row
Row(id, u, t, r, m, at) ==
    [id |-> id, user_id |-> u, thread_id |-> t, role |-> r, message |-> m, created_at |-> at]

\* created_at TIMESTAMP DEFAULT CURRENT_TIMESTAMP: the start time of the
\* transaction the INSERT runs in
\* variant: the default is evaluated once, every row gets the same time
CreatedAtFrozen(start) == 0
CreatedAt(start) == start

\* cursor.execute on conn: psycopg2 begins a transaction on the first
\* statement after a commit; later statements run in the same transaction
BeginIfNeeded ==
    IF txnOpen
    THEN /\ UNCHANGED <<clock, txnStart, txnOpen>>
    ELSE /\ clock' = clock + 1
         /\ txnStart' = clock + 1
         /\ txnOpen' = TRUE

\* WHERE user_id = %s
\* variant: the WHERE clause is left out
RowsOfAnyUser(tbl, u) == tbl
RowsOf(tbl, u) == SelectSeq(tbl, LAMBDA row : row.user_id = u)

\* ORDER BY created_at: every arrangement of the rows that is sorted by
\* created_at (rows with equal created_at come in any order)
Perms(n) == {p \in [1..n -> 1..n] : \A i, j \in 1..n : i # j => p[i] # p[j]}

OrderByCreatedAt(rows) ==
    {[i \in 1..Len(rows) |-> rows[p[i]]] : p \in
        {q \in Perms(Len(rows)) :
            \A i, j \in 1..Len(rows) :
                i < j => rows[q[i]].created_at <= rows[q[j]].created_at}}

\* SELECT role, message
RoleMessage(rows) == [i \in 1..Len(rows) |-> <<rows[i].role, rows[i].message>>]

\* INSERT INTO ChatMessages (user_id, thread_id, role, message) VALUES (...)
\* variant: a row of the same user and role is overwritten
InsertRowUpsert(tbl, row) ==
    IF \E i \in 1..Len(tbl) : tbl[i].user_id = row.user_id /\ tbl[i].role = row.role
    THEN LET i == CHOOSE k \in 1..Len(tbl) :
                      tbl[k].user_id = row.user_id /\ tbl[k].role = row.role
         IN  [tbl EXCEPT ![i] = row]
    ELSE Append(tbl, row)
InsertRow(tbl, row) == Append(tbl, row)

\* def get_or_create_thread(user_id)
get_or_create_thread(user_id) ==
    /\ BeginIfNeeded
    /\ dbOp' = DbCall("get_or_create_thread", user_id, None, None, None)
    /\ LET rows == RowsOf(table, user_id) IN
       IF Len(rows) > 0
       THEN \* LIMIT 1 without ORDER BY: any one of the user's rows
            /\ \E i \in 1..Len(rows) : dbRet' = rows[i].thread_id
            /\ UNCHANGED nThreads
       ELSE \* project_client.agents.create_thread()
            /\ nThreads < MaxThreads
            /\ nThreads' = nThreads + 1
            /\ dbRet' = nThreads + 1
    /\ UNCHANGED <<table, committed, nextId>>
    /\ UNCHANGED <<memVars, toolVars, fwVars, scriptVars, envVars, sessVars, raceVars>>

\* def store_message(user_id, thread_id, role, message)
store_message(user_id, thread_id, role, message) ==
    /\ Len(table) < MaxRows
    /\ table' = InsertRow(table,
                    Row(nextId, user_id, thread_id, role, message,
                        CreatedAt(IF txnOpen THEN txnStart ELSE clock + 1)))
    /\ nextId' = nextId + 1
    /\ clock' = IF txnOpen THEN clock ELSE clock + 1
    \* conn.commit()
    /\ committed' = Len(table')
    /\ txnOpen' = FALSE
    /\ txnStart' = 0
    /\ dbOp' = DbCall("store_message", user_id, thread_id, role, message)
    /\ dbRet' = None
    /\ UNCHANGED nThreads
    /\ UNCHANGED <<memVars, toolVars, fwVars, scriptVars, envVars, sessVars, raceVars>>

\* def get_chat_history(user_id)
get_chat_history(user_id) ==
    /\ BeginIfNeeded
    /\ dbOp' = DbCall("get_chat_history", user_id, None, None, None)
    /\ \E rows \in OrderByCreatedAt(RowsOf(table, user_id)) :
           dbRet' = RoleMessage(rows)
    /\ UNCHANGED <<table, committed, nextId, nThreads>>
    /\ UNCHANGED <<memVars, toolVars, fwVars, scriptVars, envVars, sessVars, raceVars>>

InitDB ==
    /\ table = <<>>
    /\ committed = 0
    /\ nextId = 1
    /\ clock = 0
    /\ txnOpen = FALSE
    /\ txnStart = 0
    /\ nThreads = 0
    /\ dbOp = DbCall("connect", None, None, None, None)
    /\ dbRet = None

NextDB ==
    \/ \E u \in Users : get_or_create_thread(u)
    \/ \E u \in Users, t \in 1..nThreads, r \in Roles, m \in Messages :
           store_message(u, t, r, m)
    \/ \E u \in Users : get_chat_history(u)

\* ------------------------------------------------------------------------
\* 3_short_term_mem.py
\* ------------------------------------------------------------------------
\* A text is a sequence of tokens, so that joining and prefixing are real
\* concatenations. A user input is one token.
Texts == {"a", "b"}
UserInputs == {<<t>> : t \in Texts}

\* "Summarize the following conversation: "
SummaryPrefix == <<"Summarize:">>
\* " | "
Separator == <<"|">>

\* " | ".join(parts)
RECURSIVE Join(_)
Join(parts) ==
    IF Len(parts) = 0 THEN <<>>
    ELSE IF Len(parts) = 1 THEN parts[1]
    ELSE parts[1] \o Separator \o Join(Tail(parts))

\* lst[-4:]
Last4(lst) == SubSeq(lst, IF Len(lst) > 4 THEN Len(lst) - 3 ELSE 1, Len(lst))

\* lst[-4:] = [x]
ReplaceLast4(lst, x) ==
    SubSeq(lst, 1, IF Len(lst) > 4 THEN Len(lst) - 4 ELSE 0) \o <<x>>

\* summary_content of manage_messages, for the history after the append
SummaryContent(history) == SummaryPrefix \o Join(Last4(history))

\* if len(message_history) >= 5
NeedsSummary(history) == Len(history) >= 5

\* if len(message_history) > 5: message_history.pop(0)
PopOldest(history) == IF Len(history) > 5 THEN Tail(history) ELSE history

\* message_history after a manage_messages call that ran to its end
\* variant: nothing is folded or dropped
HistoryAppendOnly(history, user_input) == Append(history, user_input)
HistoryAfter(history, user_input) ==
    LET appended == Append(history, user_input)
        summarized == IF NeedsSummary(appended)
                      THEN ReplaceLast4(appended, SummaryContent(appended))
                      ELSE appended
    IN  PopOldest(summarized)

\* def manage_messages(thread_id, user_input); each create_message either
\* returns or raises, and an exception leaves manage_messages and ends the
\* script
ManageMessagesBody(user_input, summaryOk, messageOk) ==
    /\ ~mmCrashed
    /\ mmInputs' = Append(mmInputs, user_input)
    /\ LET appended == Append(message_history, user_input)
           n == Len(mmInputs) + 1
       IN  IF NeedsSummary(appended) /\ ~summaryOk
           THEN \* the summary's create_message raised
                /\ message_history' = appended
                /\ summaryCalls' = summaryCalls
                /\ lastPosted' = <<>>
                /\ mmCrashed' = TRUE
           ELSE /\ message_history' = HistoryAfter(message_history, user_input)
                /\ summaryCalls' = IF NeedsSummary(appended)
                                   THEN summaryCalls \cup {n}
                                   ELSE summaryCalls
                /\ lastPosted' =
                       (IF NeedsSummary(appended)
                        THEN <<SummaryContent(appended)>> ELSE <<>>)
                       \o (IF messageOk THEN <<user_input>> ELSE <<>>)
                /\ mmCrashed' = ~messageOk

\* manage_messages called with any input, any number of times
manage_messages(user_input, summaryOk, messageOk) ==
    /\ Len(mmInputs) < MaxCalls
    /\ ManageMessagesBody(user_input, summaryOk, messageOk)
    /\ UNCHANGED <<dbVars, toolVars, fwVars, scriptVars, envVars, sessVars, raceVars>>

InitMem ==
    /\ message_history = <<>>
    /\ mmInputs = <<>>
    /\ summaryCalls = {}
    /\ lastPosted = <<>>
    /\ mmCrashed = FALSE

NextMem ==
    \E u \in UserInputs, summaryOk \in BOOLEAN, messageOk \in BOOLEAN :
        manage_messages(u, summaryOk, messageOk)

\* ------------------------------------------------------------------------
\* 2_function_sequencing.py and 2_function_sequencing_with_decorators.py
\* (the same code up to the line numbers)
\* ------------------------------------------------------------------------
\* Python values: None, a str (a sequence of characters), a float (in units
\* of 0.0001)
NoneV == [t |-> "none", v |-> <<>>]
Str(s) == [t |-> "str", v |-> s]
Num(n) == [t |-> "num", v |-> n]

\* bool(x)
Truthy(x) ==
    CASE x.t = "none" -> FALSE
      [] x.t = "str" -> Len(x.v) > 0
      [] x.t = "num" -> x.v # 0

London == <<"L", "o", "n", "d", "o", "n">>
NewYork == <<"N", "e", "w", " ", "Y", "o", "r", "k">>
Tokyo == <<"T", "o", "k", "y", "o">>
Oslo == <<"O", "s", "l", "o">>

CityNames == {London, NewYork, Tokyo}

CITY_COORDS(city) ==
    CASE city = London -> [lat |-> Num(515074), lon |-> Num(-1278)]
      [] city = NewYork -> [lat |-> Num(407128), lon |-> Num(-740060)]
      [] city = Tokyo -> [lat |-> Num(356895), lon |-> Num(1396917)]

Digits == {"0", "1", "2", "3", "4", "5", "6", "7", "8", "9"}

DigitValue(c) ==
    CASE c = "0" -> 0 [] c = "1" -> 1 [] c = "2" -> 2 [] c = "3" -> 3
      [] c = "4" -> 4 [] c = "5" -> 5 [] c = "6" -> 6 [] c = "7" -> 7
      [] c = "8" -> 8 [] c = "9" -> 9

\* ',' in s
HasComma(s) == \E i \in 1..Len(s) : s[i] = ","

\* any(char.isdigit() for char in s)
HasDigit(s) == \E i \in 1..Len(s) : s[i] \in Digits

\* s.split(',')
RECURSIVE Split(_)
Split(s) ==
    IF ~HasComma(s) THEN <<s>>
    ELSE LET i == CHOOSE k \in 1..Len(s) :
                      s[k] = "," /\ \A j \in 1..(k - 1) : s[j] # ","
         IN  <<SubSeq(s, 1, i - 1)>> \o Split(SubSeq(s, i + 1, Len(s)))

\* s.strip()
RECURSIVE Strip(_)
Strip(s) ==
    IF Len(s) > 0 /\ s[1] = " " THEN Strip(Tail(s))
    ELSE IF Len(s) > 0 /\ s[Len(s)] = " " THEN Strip(SubSeq(s, 1, Len(s) - 1))
    ELSE s

\* float(s) of a stripped string written with digits, '.', '+' and '-':
\* whether it parses, and its value
Unsigned(s) == IF Len(s) > 0 /\ s[1] \in {"+", "-"} THEN Tail(s) ELSE s

IsFloat(s) ==
    LET u == Unsigned(s)
    IN  /\ \A i \in 1..Len(u) : u[i] \in Digits \cup {"."}
        /\ \E i \in 1..Len(u) : u[i] \in Digits
        /\ Cardinality({i \in 1..Len(u) : u[i] = "."}) <= 1

RECURSIVE DigitsValue(_)
DigitsValue(ds) ==
    IF Len(ds) = 0 THEN 0
    ELSE 10 * DigitsValue(SubSeq(ds, 1, Len(ds) - 1)) + DigitValue(ds[Len(ds)])

RECURSIVE PadRight(_, _)
PadRight(ds, n) == IF Len(ds) >= n THEN ds ELSE PadRight(Append(ds, "0"), n)

FloatValue(s) ==
    LET u == Unsigned(s)
        dot == IF \E i \in 1..Len(u) : u[i] = "."
               THEN CHOOSE i \in 1..Len(u) : u[i] = "."
               ELSE Len(u) + 1
        whole == DigitsValue(SubSeq(u, 1, dot - 1))
        frac == DigitsValue(PadRight(SubSeq(u, dot + 1, Len(u)), 4))
        magnitude == whole * 10000 + frac
    IN  IF Len(s) > 0 /\ s[1] = "-" THEN 0 - magnitude ELSE magnitude

\* Keyword arguments: a function from parameter names to values
NoKwargs == [k \in {} |-> NoneV]
Get(kwargs, k) == IF k \in DOMAIN kwargs THEN kwargs[k] ELSE NoneV

\* json.dumps(d)
Json(d) == [kind |-> "json", value |-> d]
\* an exception leaving the call
Raise(exc) == [kind |-> "raise", value |-> exc]

TracedNames == {"fetch_weather", "fetch_air_quality", "get_city_coords"}

\* inspect.signature(func).parameters
Params(func) ==
    IF func = "get_city_coords" THEN {"city"} ELSE {"city", "lat", "lon"}
Required(func) == IF func = "get_city_coords" THEN {"city"} ELSE {}

\* Events of a call
SetAttribute(key, value) == [ev |-> "set_attribute", key |-> key, value |-> value, kwargs |-> NoKwargs]
Invoke(func, kwargs) == [ev |-> "invoke", key |-> "", value |-> func, kwargs |-> kwargs]
HttpGet(lat, lon) ==
    [ev |-> "http_get", key |-> "", value |-> "api.open-meteo.com",
     kwargs |-> ("lat" :> lat) @@ ("lon" :> lon)]

\* What a call does: its events and its result
Did(events, result) == [events |-> events, result |-> result]

\* the answers of api.open-meteo.com the model draws from
HttpOutcomes == {"temps", "no_temps", "error"}

\* def get_city_coords(city)
get_city_coords(kwargs) ==
    LET city == kwargs["city"]
    IN  IF city.t # "str" \/ city.v \notin CityNames
        THEN Did(<<>>, Json([error |-> <<"Coordinates for ", city.v, " not found">>]))
        ELSE Did(<<>>, Json(CITY_COORDS(city.v)))

\* the first lines of fetch_weather and fetch_air_quality: the coordinates
\* they go on with, or the error they return
Coordinates(kwargs) ==
    LET city == Get(kwargs, "city")
        lat == Get(kwargs, "lat")
        lon == Get(kwargs, "lon")
        fromCity == Truthy(city) /\ ~(Truthy(lat) /\ Truthy(lon))
    IN  IF fromCity /\ city.v \notin CityNames
        THEN [ok |-> FALSE, lat |-> lat, lon |-> lon,
              error |-> Json([error |-> <<"City ", city.v, " not supported">>])]
        ELSE LET lat2 == IF fromCity THEN CITY_COORDS(city.v).lat ELSE lat
                 lon2 == IF fromCity THEN CITY_COORDS(city.v).lon ELSE lon
             IN  IF ~(Truthy(lat2) /\ Truthy(lon2))
                 THEN [ok |-> FALSE, lat |-> lat2, lon |-> lon2,
                       error |-> Json([error |-> "Missing coordinates"])]
                 ELSE [ok |-> TRUE, lat |-> lat2, lon |-> lon2, error |-> NoneV]

\* def fetch_weather(city=None, lat=None, lon=None)
fetch_weather(kwargs, http) ==
    LET c == Coordinates(kwargs)
    IN  IF ~c.ok THEN Did(<<>>, c.error)
        ELSE Did(<<HttpGet(c.lat, c.lon)>>,
                 CASE http = "temps" -> Json([temperature |-> "temps[0]", units |-> "units"])
                   [] http = "no_temps" -> Json([temperature |-> "null", units |-> "units"])
                   [] http = "error" -> Json([error |-> "str(e)"]))

\* def fetch_air_quality(city=None, lat=None, lon=None)
fetch_air_quality(kwargs) ==
    LET c == Coordinates(kwargs)
    IN  IF ~c.ok THEN Did(<<>>, c.error)
        ELSE Did(<<>>, Json([air_quality_index |-> 42, lat |-> c.lat, lon |-> c.lon]))

\* func(**kwargs) for the undecorated function func
Call(func, kwargs, http) ==
    LET bound == /\ DOMAIN kwargs \subseteq Params(func)
                 /\ Required(func) \subseteq DOMAIN kwargs
        did == IF ~bound THEN Did(<<>>, Raise("TypeError"))
               ELSE CASE func = "get_city_coords" -> get_city_coords(kwargs)
                      [] func = "fetch_weather" -> fetch_weather(kwargs, http)
                      [] func = "fetch_air_quality" -> fetch_air_quality(kwargs)
    IN  Did(<<Invoke(func, kwargs)>> \o did.events, did.result)

\* span = trace.get_current_span(); if span: span.set_attribute(...)
\* (a span object is always true)
\* variant: the attribute is not set
NoSpanEvents(func) == <<>>
SpanEvents(func) == <<SetAttribute("gen_ai.tool.function_name", func)>>

\* the keyword arguments the decorator's wrapper hands to func
CleanKwargs(func, kwargs) ==
    IF /\ "args" \in DOMAIN kwargs
       /\ kwargs["args"].t = "str"
       /\ func \in TracedNames
    THEN LET a == kwargs["args"].v
             parts == Split(a)
         IN  IF /\ HasComma(a)
                /\ HasDigit(a)
                /\ Len(parts) = 2
                /\ IsFloat(Strip(parts[1]))
                /\ IsFloat(Strip(parts[2]))
             THEN ("lat" :> Num(FloatValue(Strip(parts[1]))))
                  @@ ("lon" :> Num(FloatValue(Strip(parts[2]))))
             ELSE ("city" :> Str(a))
    ELSE [k \in DOMAIN kwargs \cap Params(func) |-> kwargs[k]]

\* def trace_function_name(func): wrapper(**kwargs)
Decorated(func, kwargs, http) ==
    LET did == Call(func, CleanKwargs(func, kwargs), http)
    IN  Did(SpanEvents(func) \o did.events, did.result)

\* the keyword arguments fetch_weather_wrapper and fetch_air_quality_wrapper
\* forward
\* variant: every argument that is not None is forwarded
ForwardAll(city, lat, lon) ==
    [k \in {x \in {"city", "lat", "lon"} :
                 (x = "city" /\ city.t # "none") \/ (x = "lat" /\ lat.t # "none")
                 \/ (x = "lon" /\ lon.t # "none")} |->
        IF k = "city" THEN city ELSE IF k = "lat" THEN lat ELSE lon]
Forward(city, lat, lon) ==
    IF city.t # "none" THEN ("city" :> city)
    ELSE ("lat" :> lat) @@ ("lon" :> lon)

\* def get_city_coords_wrapper(city)
get_city_coords_wrapper(city) == Decorated("get_city_coords", ("city" :> city), "temps")

\* def fetch_weather_wrapper(city=None, lat=None, lon=None)
fetch_weather_wrapper(city, lat, lon, http) ==
    IF city.t # "none" \/ (lat.t # "none" /\ lon.t # "none")
    THEN Decorated("fetch_weather", Forward(city, lat, lon), http)
    ELSE Did(<<>>, Json([error |-> "Missing required parameters"]))

\* def fetch_air_quality_wrapper(city=None, lat=None, lon=None)
fetch_air_quality_wrapper(city, lat, lon) ==
    IF city.t # "none" \/ (lat.t # "none" /\ lon.t # "none")
    THEN Decorated("fetch_air_quality", Forward(city, lat, lon), "temps")
    ELSE Did(<<>>, Json([error |-> "Missing required parameters"]))

\* span.set_attribute for every set_attribute event of a call
RECURSIVE ApplyAttributes(_, _)
ApplyAttributes(attrs, events) ==
    IF Len(events) = 0 THEN attrs
    ELSE LET e == events[1]
         IN  ApplyAttributes(
                 IF e.ev = "set_attribute"
                 THEN [k \in DOMAIN attrs \cup {e.key} |->
                          IF k = e.key THEN e.value ELSE attrs[k]]
                 ELSE attrs,
                 Tail(events))

\* Inputs the model draws from
CityInputs == {NoneV, Str(London), Str(Oslo), Str(<<>>)}
CoordInputs == {NoneV, Num(0), Num(515074)}
ArgsInputs ==
    {Str(London), Str(Oslo), Str(<<>>),
     Str(<<"5", "1", ".", "5", ",", "-", "0", ".", "1">>),
     Str(<<"5", "1", ",", " ", "0">>),
     Str(<<"1", ",", "2", ",", "3">>),
     Str(<<"A", "1", ",", "B">>),
     Str(<<"1", ".", "2", ".", "3", ",", "4">>),
     Num(515074)}
KwargsInputs ==
    {("city" :> c) : c \in CityInputs \ {NoneV}}
    \cup {("lat" :> la) @@ ("lon" :> lo) : la, lo \in CoordInputs \ {NoneV}}
    \cup {("args" :> a) : a \in ArgsInputs}
    \cup {("args" :> a) @@ ("city" :> Str(Tokyo)) : a \in ArgsInputs}
    \cup {("city" :> Str(London)) @@ ("units" :> Str(<<"C">>))}

\* what a call leaves behind
Performed(did) ==
    /\ toolLog' = did.events
    /\ toolRet' = did.result
    /\ spanAttrs' = ApplyAttributes(spanAttrs, did.events)

\* the agent run calls a registered tool function
CallGetCityCoordsWrapper(city) ==
    /\ toolOp' = [name |-> "get_city_coords_wrapper", kwargs |-> ("city" :> city)]
    /\ Performed(get_city_coords_wrapper(city))
    /\ UNCHANGED <<dbVars, memVars, fwVars, scriptVars, envVars, sessVars, raceVars>>

CallFetchWeatherWrapper(city, lat, lon, http) ==
    /\ toolOp' = [name |-> "fetch_weather_wrapper",
                  kwargs |-> ("city" :> city) @@ ("lat" :> lat) @@ ("lon" :> lon)]
    /\ Performed(fetch_weather_wrapper(city, lat, lon, http))
    /\ UNCHANGED <<dbVars, memVars, fwVars, scriptVars, envVars, sessVars, raceVars>>

CallFetchAirQualityWrapper(city, lat, lon) ==
    /\ toolOp' = [name |-> "fetch_air_quality_wrapper",
                  kwargs |-> ("city" :> city) @@ ("lat" :> lat) @@ ("lon" :> lon)]
    /\ Performed(fetch_air_quality_wrapper(city, lat, lon))
    /\ UNCHANGED <<dbVars, memVars, fwVars, scriptVars, envVars, sessVars, raceVars>>

\* a call of one of the decorated functions themselves
CallDecorated(func, kwargs, http) ==
    /\ toolOp' = [name |-> func, kwargs |-> kwargs]
    /\ Performed(Decorated(func, kwargs, http))
    /\ UNCHANGED <<dbVars, memVars, fwVars, scriptVars, envVars, sessVars, raceVars>>

\* CustomAttributeSpanProcessor.on_start has run for the current span
InitTools ==
    /\ toolOp = [name |-> "none", kwargs |-> NoKwargs]
    /\ toolLog = <<>>
    /\ toolRet = NoneV
    /\ spanAttrs = ("trace_sample.sessionid" :> "123")

NextTools ==
    \/ \E city \in CityInputs \ {NoneV} : CallGetCityCoordsWrapper(city)
    \/ \E city \in CityInputs, lat, lon \in CoordInputs, http \in HttpOutcomes :
           CallFetchWeatherWrapper(city, lat, lon, http)
    \/ \E city \in CityInputs, lat, lon \in CoordInputs :
           CallFetchAirQualityWrapper(city, lat, lon)
    \/ \E func \in TracedNames, kwargs \in KwargsInputs, http \in HttpOutcomes :
           CallDecorated(func, kwargs, http)

\* ------------------------------------------------------------------------
\* 1_external_api_call.py: get_city_coordinates and fetch_weather
\* ------------------------------------------------------------------------
\* d.get(key, default) for a dict d (a function from its keys)
DictGet(d, key, default) == IF key \in DOMAIN d THEN d[key] ELSE default

EmptyDict == [k \in {} |-> NoneV]

\* an HTTP response: status code and parsed JSON body
Response(status, body) == [status |-> status, body |-> body]

\* answers of the geocoding API the model draws from: a list of locations
GeoAnswers ==
    {Response(st, body) :
        st \in {200, 401},
        body \in {<<>>,
                  <<[lat |-> Num(515074), lon |-> Num(-1278)]>>,
                  <<[lat |-> Num(0), lon |-> Num(0)]>>}}

\* answers of the One Call API: a dict that may hold "current", a dict whose
\* fields may each be missing and whose "weather" is a list of dicts
CurrentFields == {"temp", "feels_like", "wind_speed", "humidity", "uvi"}
WeatherLists ==
    {<<>>, <<EmptyDict>>, <<("description" :> Str(<<"r", "a", "i", "n">>))>>}
FieldsPresent ==
    {{}, {"temp", "feels_like"}, {"wind_speed", "humidity", "uvi"}, CurrentFields}
Currents ==
    {[k \in present |-> Num(150000)] : present \in FieldsPresent}
    \cup {[k \in present \cup {"weather"} |->
               IF k = "weather" THEN wl ELSE Num(150000)] :
              present \in FieldsPresent, wl \in WeatherLists}
WeatherAnswers ==
    {Response(500, EmptyDict), Response(200, EmptyDict)}
    \cup {Response(200, ("current" :> c)) : c \in Currents}

GeoRequest(city) == [url |-> "api.openweathermap.org/geo/1.0/direct", q |-> city]
WeatherRequest(lat, lon) ==
    [url |-> "api.openweathermap.org/data/3.0/onecall", q |-> <<lat, lon>>]

\* def get_city_coordinates(city)
get_city_coordinates(response) ==
    IF response.status = 200 /\ Len(response.body) > 0
    THEN [lat |-> response.body[1].lat, lon |-> response.body[1].lon]
    ELSE [lat |-> NoneV, lon |-> NoneV]

\* current.get("weather", [{}])[0].get("description")
Description(current) ==
    LET weather == DictGet(current, "weather", <<EmptyDict>>)
    IN  IF Len(weather) = 0 THEN Raise("IndexError")
        ELSE Json(DictGet(weather[1], "description", NoneV))

\* def fetch_weather(location) of 1_external_api_call.py: the requests it
\* sends and what it returns or raises
api_fetch_weather(location, geo, weather) ==
    LET coords == get_city_coordinates(geo)
    IN  IF coords.lat.t = "none" \/ coords.lon.t = "none"
        THEN Did(<<GeoRequest(location)>>, Json([error |-> "City not found"]))
        ELSE LET sent == <<GeoRequest(location), WeatherRequest(coords.lat, coords.lon)>>
                 current == DictGet(weather.body, "current", EmptyDict)
                 description == Description(current)
             IN  IF weather.status # 200
                 THEN Did(sent, Json([error |-> "Failed to retrieve weather data"]))
                 ELSE IF description.kind = "raise"
                 THEN Did(sent, description)
                 ELSE Did(sent, Json(
                          [city |-> location,
                           temperature |-> DictGet(current, "temp", NoneV),
                           feels_like |-> DictGet(current, "feels_like", NoneV),
                           description |-> description.value,
                           wind_speed |-> DictGet(current, "wind_speed", NoneV),
                           humidity |-> DictGet(current, "humidity", NoneV),
                           uvi |-> DictGet(current, "uvi", NoneV)]))

\* the agent run calls the registered function fetch_weather(location)
CallFetchWeather(location, geo, weather) ==
    LET did == api_fetch_weather(location, geo, weather)
    IN  /\ fwOp' = [location |-> location, geo |-> geo,
                    weather |-> IF Len(did.events) = 2 THEN weather
                                ELSE Response(0, EmptyDict)]
        /\ fwLog' = did.events
        /\ fwRet' = did.result
        /\ UNCHANGED <<dbVars, memVars, toolVars, scriptVars, envVars, sessVars, raceVars>>

InitFw ==
    /\ fwOp = [location |-> <<>>, geo |-> Response(0, <<>>), weather |-> Response(0, EmptyDict)]
    /\ fwLog = <<>>
    /\ fwRet = NoneV

NextFw ==
    \E location \in {London, Tokyo, Oslo}, geo \in GeoAnswers, weather \in WeatherAnswers :
        CallFetchWeather(location, geo, weather)

\* ------------------------------------------------------------------------
\* The function-calling agent scripts: the four scripts held in
\* 1_external_api_call.py and the three 2_function_sequencing*.py files
\* ------------------------------------------------------------------------
Scripts ==
    {"external_api_call",            \* 1_external_api_call.py:63-103
     "function_sequencing_copy",     \* 1_external_api_call.py:166-228, main
     "function_sequencing_otlp",     \* 1_external_api_call.py:318-370
     "function_sequencing_city",     \* 1_external_api_call.py:425-467
     "function_sequencing",          \* 2_function_sequencing.py:206-280
     "with_decorators",              \* 2_function_sequencing_with_decorators.py
     "basic_function_no_trace"}      \* 2_function_sequencing_basic_function_no_trace.py

\* the calls on project_client.agents a script makes, in program order
\* variant: the agent is deleted before the messages are listed
ProgramDeleteBeforeList(s) ==
    <<"create_agent", "create_thread", "create_message",
      "create_and_process_run", "delete_agent", "list_messages">>
Program(s) ==
    IF s = "function_sequencing_copy"
    THEN <<"create_agent", "create_thread", "create_message",
           "create_and_process_run", "list_run_steps", "list_messages", "delete_agent">>
    ELSE <<"create_agent", "create_thread", "create_message",
           "create_and_process_run", "list_messages", "delete_agent">>

\* the states create_and_process_run returns a run in
RunStatuses == {"completed", "failed", "expired"}

RemoteEvent(ev, call) == [ev |-> ev, call |-> call]

\* the script reaches its next call on project_client.agents
IssueCall ==
    /\ ~aborted
    /\ ~inFlight
    /\ pc < Len(Program(script))
    /\ inFlight' = TRUE
    /\ remoteLog' = Append(remoteLog, RemoteEvent("issue", Program(script)[pc + 1]))
    /\ UNCHANGED <<script, pc, runStatus, aborted>>
    /\ UNCHANGED <<dbVars, memVars, toolVars, fwVars, envVars, sessVars, raceVars>>

\* variant: a failed run ends the script
AfterCallEndsOnFailed(s, at, status) ==
    IF Program(s)[at] = "create_and_process_run" /\ status = "failed"
    THEN Len(Program(s)) ELSE at
\* how many calls of the program are behind the script once call number
\* `at` has returned: `if run.status == "failed"` only prints, no statement
\* after a call branches on what the call returned
AfterCall(s, at, status) == at

\* the call returns and the script goes on with the next statement
ReturnCall(status) ==
    /\ inFlight
    /\ inFlight' = FALSE
    /\ pc' = AfterCall(script, pc + 1, status)
    /\ remoteLog' = Append(remoteLog, RemoteEvent("return", Program(script)[pc + 1]))
    /\ runStatus' = IF Program(script)[pc + 1] = "create_and_process_run"
                    THEN status ELSE runStatus
    /\ UNCHANGED <<script, aborted>>
    /\ UNCHANGED <<dbVars, memVars, toolVars, fwVars, envVars, sessVars, raceVars>>

\* the call raises; no script catches the exception
RaiseCall ==
    /\ inFlight
    /\ inFlight' = FALSE
    /\ aborted' = TRUE
    /\ remoteLog' = Append(remoteLog, RemoteEvent("raise", Program(script)[pc + 1]))
    /\ UNCHANGED <<script, pc, runStatus>>
    /\ UNCHANGED <<dbVars, memVars, toolVars, fwVars, envVars, sessVars, raceVars>>

InitScript ==
    /\ pc = 0
    /\ inFlight = FALSE
    /\ remoteLog = <<>>
    /\ runStatus = "none"
    /\ aborted = FALSE

NextScript ==
    \/ IssueCall
    \/ \E status \in RunStatuses : ReturnCall(status)
    \/ RaiseCall

\* ------------------------------------------------------------------------
\* Start-up of the scripts: os.getenv, the checks on the values, the client
\* ------------------------------------------------------------------------
EnvNames ==
    {"PROJECT_CONNECTION_STRING", "OPEN_WEATHER_API_KEY",
     "MODEL_DEPLOYMENT_NAME", "BING_CONNECTION_NAME"}

\* os.getenv(name): None when unset, else the string, which may be empty
EnvValues == {NoneV, Str(<<>>), Str(<<"x">>)}

StartingScripts ==
    Scripts \cup
    {"azure_ai_agent_service_setup",  \* 0_azure_ai_agent_service_setup.py
     "short_term_mem",                \* 3_short_term_mem.py:1-128
     "web_search",                    \* 3_short_term_mem.py:131-259
     "long_term_mem"}                 \* 3_long_term_mem.py

\* the checks a script makes before it constructs the client, in program
\* order: the variables one `if not ...` tests, and how it stops
EnvCheck(names, stop) == [names |-> names, stop |-> stop]

\* variant: only the connection string is checked
EnvChecksConnOnly(s) ==
    IF s = "long_term_mem" THEN <<>>
    ELSE <<EnvCheck({"PROJECT_CONNECTION_STRING"},
                    IF s \in {"azure_ai_agent_service_setup", "short_term_mem", "web_search"}
                    THEN "exit(1)" ELSE "ValueError")>>
EnvChecks(s) ==
    CASE s \in {"azure_ai_agent_service_setup", "short_term_mem"} ->
             <<EnvCheck({"PROJECT_CONNECTION_STRING"}, "exit(1)")>>
      [] s = "web_search" ->
             <<EnvCheck({"PROJECT_CONNECTION_STRING", "MODEL_DEPLOYMENT_NAME",
                         "BING_CONNECTION_NAME"}, "exit(1)")>>
      [] s = "external_api_call" ->
             <<EnvCheck({"PROJECT_CONNECTION_STRING"}, "ValueError"),
               EnvCheck({"OPEN_WEATHER_API_KEY"}, "ValueError")>>
      [] s = "long_term_mem" -> <<>>
      [] OTHER -> <<EnvCheck({"PROJECT_CONNECTION_STRING"}, "ValueError")>>

\* the first check that fails, 0 when none does
FirstFailing(checks, e) ==
    IF \E i \in 1..Len(checks) : \E n \in checks[i].names : ~Truthy(e[n])
    THEN CHOOSE i \in 1..Len(checks) :
             /\ \E n \in checks[i].names : ~Truthy(e[n])
             /\ \A j \in 1..(i - 1) : \A n \in checks[j].names : Truthy(e[n])
    ELSE 0

\* the module-level checks of the environment
ValidateEnv ==
    /\ envPc = "start"
    /\ LET failing == FirstFailing(EnvChecks(envScript), env)
       IN  envPc' = IF failing = 0 THEN "validated"
                    ELSE EnvChecks(envScript)[failing].stop
    /\ UNCHANGED <<env, envScript>>
    /\ UNCHANGED <<dbVars, memVars, toolVars, fwVars, scriptVars, sessVars, raceVars>>

\* AIProjectClient.from_connection_string(conn_str, DefaultAzureCredential())
\* returns or raises; short_term_mem catches the exception and exits
ConstructClient(ok) ==
    /\ envPc = "validated"
    /\ envPc' = IF ok THEN "client"
                ELSE IF envScript = "short_term_mem" THEN "exit(1)" ELSE "raised"
    /\ UNCHANGED <<env, envScript>>
    /\ UNCHANGED <<dbVars, memVars, toolVars, fwVars, scriptVars, sessVars, raceVars>>

\* the first call on project_client
FirstRemoteCall ==
    /\ envPc = "client"
    /\ envPc' = "remote"
    /\ UNCHANGED <<env, envScript>>
    /\ UNCHANGED <<dbVars, memVars, toolVars, fwVars, scriptVars, sessVars, raceVars>>

InitEnv ==
    /\ env = [n \in EnvNames |-> Str(<<"x">>)]
    /\ envScript = "external_api_call"
    /\ envPc = "start"

NextEnv ==
    \/ ValidateEnv
    \/ \E ok \in BOOLEAN : ConstructClient(ok)
    \/ FirstRemoteCall

\* ------------------------------------------------------------------------
\* 3_short_term_mem.py: the simulated conversation and the cleanup
\* ------------------------------------------------------------------------
user_inputs ==
    << <<"space">>, <<"ai">>, <<"quantum">>, <<"diet">>, <<"ml">>,
       <<"book">>, <<"holes">> >>

\* thread.id of the thread the script created
SessionThread == "thread_1"

\* a message of the thread: its role and the text of content[0]
Msg(role, text) == [role |-> role, text |-> text]

\* the assistant's answer to a user message
ReplyTo(text) == <<"Re:">> \o text

\* "No response received."
NoResponse == <<"No response received.">>

Reverse(seq) == [i \in 1..Len(seq) |-> seq[Len(seq) + 1 - i]]

\* list_messages(thread_id=thread_id).data: the service lists a thread
\* newest message first unless another order is asked for
list_messages(th) == Reverse(th)

\* messages.data[-1].content[0].text.value if messages.data, else the
\* fixed text
LastResponse(data) ==
    IF data # <<>> THEN data[Len(data)].text ELSE NoResponse

\* variant: the exception leaves run_agent
run_agent_uncaught(th, excInTry) ==
    IF excInTry THEN [raises |-> TRUE, value |-> NoneV]
    ELSE [raises |-> FALSE, value |-> Str(LastResponse(list_messages(th)))]
\* def run_agent(thread_id, agent_id), for the thread as the run left it:
\* `except Exception` turns an exception raised in the try block into the
\* return value None
run_agent(th, excInTry) ==
    IF excInTry THEN [raises |-> FALSE, value |-> NoneV]
    ELSE [raises |-> FALSE, value |-> Str(LastResponse(list_messages(th)))]

\* what create_and_process_run does: it raises, or it returns a run that
\* completed and added the assistant's message or a run that failed
RunOutcomes == {"raises", "completed", "failed"}

\* manage_messages(thread.id, user_input) of the loop; the messages it
\* created are in the thread; an exception ends the script
LoopManageMessages(summaryOk, messageOk) ==
    /\ sessPc = "manage"
    /\ ManageMessagesBody(user_inputs[sessI + 1], summaryOk, messageOk)
    /\ thread' = thread \o [i \in 1..Len(lastPosted') |-> Msg("user", lastPosted'[i])]
    /\ sessPc' = IF mmCrashed' THEN "crashed" ELSE "run"
    /\ UNCHANGED <<sessI, runRet, runExc, lastReply, deleteLog>>
    /\ UNCHANGED <<dbVars, toolVars, fwVars, scriptVars, envVars, raceVars>>

\* run_agent(thread.id, agent.id) of the loop, then the loop's next round
\* or the statement after the loop
LoopRunAgent(runOutcome, listOk) ==
    /\ sessPc = "run"
    /\ LET reply == Msg("assistant", ReplyTo(user_inputs[sessI + 1]))
           after == IF runOutcome = "completed" THEN Append(thread, reply)
                    ELSE thread
           exc == runOutcome = "raises" \/ ~listOk
           result == run_agent(after, exc)
       IN  /\ thread' = after
           /\ lastReply' = IF runOutcome = "completed" THEN Str(reply.text)
                           ELSE NoneV
           /\ runExc' = exc
           /\ runRet' = result.value
           /\ IF result.raises
              THEN sessPc' = "crashed" /\ sessI' = sessI
              ELSE /\ sessI' = sessI + 1
                   /\ sessPc' = IF sessI + 1 < Len(user_inputs)
                                THEN "manage" ELSE "cleanup"
    /\ UNCHANGED deleteLog
    /\ UNCHANGED <<dbVars, memVars, toolVars, fwVars, scriptVars, envVars, raceVars>>

\* project_client.agents.delete_thread(thread_id=thread.id) in its try
\* block: the call returns or raises, the script ends either way
DeleteThread(ok) ==
    /\ sessPc = "cleanup"
    /\ deleteLog' = Append(deleteLog, SessionThread)
    /\ thread' = IF ok THEN <<>> ELSE thread
    /\ sessPc' = "done"
    /\ UNCHANGED <<sessI, runRet, runExc, lastReply>>
    /\ UNCHANGED <<dbVars, memVars, toolVars, fwVars, scriptVars, envVars, raceVars>>

InitSession ==
    /\ thread = <<>>
    /\ sessPc = "manage"
    /\ sessI = 0
    /\ runRet = NoneV
    /\ runExc = FALSE
    /\ lastReply = NoneV
    /\ deleteLog = <<>>

NextSession ==
    \/ \E summaryOk \in BOOLEAN, messageOk \in BOOLEAN :
           LoopManageMessages(summaryOk, messageOk)
    \/ \E runOutcome \in RunOutcomes, listOk \in BOOLEAN :
           LoopRunAgent(runOutcome, listOk)
    \/ \E ok \in BOOLEAN : DeleteThread(ok)

\* ------------------------------------------------------------------------
\* 3_long_term_mem.py run twice at the same time for one user: two
\* processes, each with its own connection, one table
\* ------------------------------------------------------------------------
Execs == {"A", "B"}

\* user_id = "user_123"
RaceUser == "user_123"

\* cursor.fetchone() after SELECT thread_id ... WHERE user_id = %s LIMIT 1:
\* nothing, or the thread_id of any one of the user's rows
\* variant: the lookup finds nothing
FetchOneNothing(rows) == {[found |-> FALSE, thread_id |-> 0]}
FetchOne(rows) ==
    IF Len(rows) = 0 THEN {[found |-> FALSE, thread_id |-> 0]}
    ELSE {[found |-> TRUE, thread_id |-> rows[i].thread_id] : i \in 1..Len(rows)}

\* thread_id = get_or_create_thread(user_id): the SELECT begins the
\* execution's transaction and sees the rows committed so far
RaceGetOrCreateThread(e) ==
    /\ rpc[e] = "start"
    /\ clock' = clock + 1
    /\ rTxn' = [rTxn EXCEPT ![e] = clock + 1]
    /\ sawNoRow' = [sawNoRow EXCEPT ![e] = ~\E i \in 1..Len(table) :
                                               table[i].user_id = RaceUser]
    /\ \E row \in FetchOne(RowsOf(table, RaceUser)) :
           IF row.found
           THEN /\ rThread' = [rThread EXCEPT ![e] = row.thread_id]
                /\ UNCHANGED nThreads
           ELSE \* project_client.agents.create_thread()
                /\ nThreads' = nThreads + 1
                /\ rThread' = [rThread EXCEPT ![e] = nThreads + 1]
    /\ rpc' = [rpc EXCEPT ![e] = "got"]
    /\ UNCHANGED <<table, committed, nextId, txnOpen, txnStart, dbOp, dbRet>>
    /\ UNCHANGED <<memVars, toolVars, fwVars, scriptVars, envVars, sessVars>>

\* a call on project_client.agents returns, or raises and ends the execution
RaceRemoteCall(e, at, next, ok) ==
    /\ rpc[e] = at
    /\ rpc' = [rpc EXCEPT ![e] = IF ok THEN next ELSE "crashed"]
    /\ UNCHANGED <<rThread, rTxn, sawNoRow>>
    /\ UNCHANGED <<dbVars, memVars, toolVars, fwVars, scriptVars, envVars, sessVars>>

\* store_message(user_id, thread_id, role, ...): INSERT and commit on the
\* execution's connection
RaceStoreMessage(e, at, next, role) ==
    /\ rpc[e] = at
    /\ table' = InsertRow(table,
                    Row(nextId, RaceUser, rThread[e], role, "m1",
                        CreatedAt(IF rTxn[e] # 0 THEN rTxn[e] ELSE clock + 1)))
    /\ nextId' = nextId + 1
    /\ clock' = IF rTxn[e] # 0 THEN clock ELSE clock + 1
    /\ committed' = Len(table')
    /\ rTxn' = [rTxn EXCEPT ![e] = 0]
    /\ rpc' = [rpc EXCEPT ![e] = next]
    /\ UNCHANGED <<rThread, sawNoRow>>
    /\ UNCHANGED <<txnOpen, txnStart, nThreads, dbOp, dbRet>>
    /\ UNCHANGED <<memVars, toolVars, fwVars, scriptVars, envVars, sessVars>>

\* project_client.agents.create_message(thread_id=thread_id, role="user", ...)
RaceCreateMessage(e, ok) ==
    /\ RaceRemoteCall(e, "got", "posted", ok)

\* store_message(user_id, thread_id, "user", user_message)
RaceStoreUser(e) ==
    /\ RaceStoreMessage(e, "posted", "stored_user", "user")

\* create_and_process_run, then list_messages and ai_response
RaceRunAndFetch(e, ok) ==
    /\ RaceRemoteCall(e, "stored_user", "fetched", ok)

\* store_message(user_id, thread_id, "assistant", ai_response)
RaceStoreAssistant(e) ==
    /\ RaceStoreMessage(e, "fetched", "stored_assistant", "assistant")

\* chat_history = get_chat_history(user_id), printed; the execution ends
RaceChatHistory(e) ==
    /\ rpc[e] = "stored_assistant"
    /\ clock' = clock + 1
    /\ rTxn' = [rTxn EXCEPT ![e] = clock + 1]
    /\ rpc' = [rpc EXCEPT ![e] = "done"]
    /\ UNCHANGED <<rThread, sawNoRow>>
    /\ UNCHANGED <<table, committed, nextId, txnOpen, txnStart, nThreads, dbOp, dbRet>>
    /\ UNCHANGED <<memVars, toolVars, fwVars, scriptVars, envVars, sessVars>>

InitRace ==
    /\ rpc = [e \in Execs |-> "start"]
    /\ rThread = [e \in Execs |-> 0]
    /\ rTxn = [e \in Execs |-> 0]
    /\ sawNoRow = [e \in Execs |-> FALSE]

NextRace ==
    \/ \E e \in Execs : RaceGetOrCreateThread(e)
    \/ \E e \in Execs, ok \in BOOLEAN : RaceCreateMessage(e, ok)
    \/ \E e \in Execs : RaceStoreUser(e)
    \/ \E e \in Execs, ok \in BOOLEAN : RaceRunAndFetch(e, ok)
    \/ \E e \in Execs : RaceStoreAssistant(e)
    \/ \E e \in Execs : RaceChatHistory(e)

Init ==
    /\ InitDB /\ InitMem /\ InitTools /\ InitFw /\ InitScript /\ InitEnv /\ InitSession /\ InitRace
    /\ script = "external_api_call"

\* any script is started in any environment
InitAnyEnv ==
    /\ InitDB /\ InitMem /\ InitTools /\ InitFw /\ InitScript /\ InitSession /\ InitRace
    /\ script = "external_api_call"
    /\ env \in [EnvNames -> EnvValues]
    /\ envScript \in StartingScripts
    /\ envPc = "start"

SpecSession == Init /\ [][NextSession]_vars

SpecRace == Init /\ [][NextRace]_vars

SpecEnv == InitAnyEnv /\ [][NextEnv]_vars

\* any one of the scripts is started
InitAnyScript ==
    /\ InitDB /\ InitMem /\ InitTools /\ InitFw /\ InitScript /\ InitEnv /\ InitSession /\ InitRace
    /\ script \in Scripts

SpecScript == InitAnyScript /\ [][NextScript]_vars

\* a script that has not ended takes its next step: a statement is reached,
\* a call in flight returns or raises
FairSpecScript == InitAnyScript /\ [][NextScript]_vars /\ WF_vars(NextScript)

SpecFw == Init /\ [][NextFw]_vars

SpecTools == Init /\ [][NextTools]_vars

SpecDB == Init /\ [][NextDB]_vars

SpecMem == Init /\ [][NextMem]_vars

\* ------------------------------------------------------------------------
\* Claims about 3_long_term_mem.py
\* ------------------------------------------------------------------------

\* C1: the ChatMessages table is append-only. Every step keeps the old rows
\* as a prefix of the table; store_message adds exactly one row carrying its
\* four arguments and commits it; get_or_create_thread and get_chat_history
\* leave the table as it was.
C1_AppendOnly ==
    [][/\ Len(table') >= Len(table)
       /\ \A i \in 1..Len(table) : table'[i] = table[i]
       /\ dbOp'.name = "store_message" =>
              /\ Len(table') = Len(table) + 1
              /\ table'[Len(table')].user_id = dbOp'.user_id
              /\ table'[Len(table')].thread_id = dbOp'.thread_id
              /\ table'[Len(table')].role = dbOp'.role
              /\ table'[Len(table')].message = dbOp'.message
              /\ committed' = Len(table')
              /\ ~txnOpen'
       /\ dbOp'.name \in {"get_or_create_thread", "get_chat_history"} =>
              /\ table' = table
              /\ committed' = committed]_vars

C1_Witness ==
    /\ dbOp.name = "store_message"
    /\ Len(table) = 3
    /\ table[1].user_id = table[3].user_id
    /\ table[1].role = table[3].role
    /\ committed = 3

\* C7: get_or_create_thread(user_id) returns the thread_id of one of the
\* user's rows and creates no remote thread when the user has a row;
\* otherwise it creates exactly one remote thread and returns the new id.
\* It never writes to the table.
C7_GetOrCreate ==
    [][dbOp'.name = "get_or_create_thread" =>
          /\ table' = table
          /\ committed' = committed
          /\ nextId' = nextId
          /\ IF \E i \in 1..Len(table) : table[i].user_id = dbOp'.user_id
             THEN /\ \E i \in 1..Len(table) :
                        /\ table[i].user_id = dbOp'.user_id
                        /\ dbRet' = table[i].thread_id
                  /\ nThreads' = nThreads
             ELSE /\ nThreads' = nThreads + 1
                  /\ dbRet' = nThreads'
                  /\ dbRet' \notin 1..nThreads]_vars

\* an existing user gets back the thread of their own row although another
\* user's row, with another thread, comes first in the table
C7_Witness ==
    /\ dbOp.name = "get_or_create_thread"
    /\ Len(table) = 2
    /\ table[1].user_id # dbOp.user_id
    /\ table[2].user_id = dbOp.user_id
    /\ table[1].thread_id # table[2].thread_id
    /\ dbRet = table[2].thread_id
    /\ nThreads = 2

\* C8: get_chat_history(user_id) returns exactly the (role, message) pairs
\* stored for user_id, in the order they were stored, and no pair of
\* another user.
C8_ChatHistory ==
    dbOp.name = "get_chat_history" =>
        LET mine == SelectSeq(table, LAMBDA row : row.user_id = dbOp.user_id)
        IN  /\ Len(dbRet) = Len(mine)
            /\ \A i \in 1..Len(mine) : dbRet[i] = <<mine[i].role, mine[i].message>>

C8_Witness ==
    /\ dbOp.name = "get_chat_history"
    /\ Len(table) = 3
    /\ table[1].user_id = dbOp.user_id
    /\ table[2].user_id # dbOp.user_id
    /\ table[3].user_id = dbOp.user_id
    /\ table[1].role = "assistant"
    /\ table[3].role = "user"
    /\ dbRet = <<<<"assistant", "m1">>, <<"user", "m1">>>>

\* ------------------------------------------------------------------------
\* Claims about 3_short_term_mem.py
\* ------------------------------------------------------------------------

\* C4: after any number of manage_messages calls, starting from an empty
\* message_history, message_history holds at most 5 entries.
C4_AtMostFive == Len(message_history) <= 5

\* the eighth call has run: the history was cut back a second time
C4_Witness ==
    /\ Len(mmInputs) = 8
    /\ ~mmCrashed
    /\ Len(message_history) = 2

\* C5 (as claimed): a summary message is posted exactly on the calls whose
\* ordinal is a multiple of 5, and on no other call.
C5_EveryFifth ==
    ~mmCrashed =>
        \A n \in 1..Len(mmInputs) : (n \in summaryCalls) <=> (n % 5 = 0)

\* C6 (as claimed): the summary a call generates joins exactly the four
\* user inputs that preceded the current input.
C6_PreviousFour ==
    (~mmCrashed /\ Len(mmInputs) \in summaryCalls) =>
        LET n == Len(mmInputs)
        IN  /\ n >= 5
            /\ lastPosted[1] = SummaryPrefix \o Join(SubSeq(mmInputs, n - 4, n - 1))

\* ------------------------------------------------------------------------
\* Claims about the tool wrappers and the tracing decorator
\* ------------------------------------------------------------------------
InvokeEvents == SelectSeq(toolLog, LAMBDA e : e.ev = "invoke")

WrapperCalled == toolOp.name \in {"fetch_weather_wrapper", "fetch_air_quality_wrapper"}

\* C2: fetch_weather_wrapper and fetch_air_quality_wrapper call the
\* underlying function with city only when city is not None, with lat and
\* lon only when city is None and both are given, and otherwise return
\* {"error": "Missing required parameters"} without calling it.
C2_WrapperForwarding ==
    WrapperCalled =>
        LET city == toolOp.kwargs["city"]
            lat == toolOp.kwargs["lat"]
            lon == toolOp.kwargs["lon"]
            underlying == IF toolOp.name = "fetch_weather_wrapper"
                          THEN "fetch_weather" ELSE "fetch_air_quality"
        IN  IF city.t # "none"
            THEN /\ Len(InvokeEvents) = 1
                 /\ InvokeEvents[1].value = underlying
                 /\ DOMAIN InvokeEvents[1].kwargs = {"city"}
                 /\ InvokeEvents[1].kwargs["city"] = city
            ELSE IF lat.t # "none" /\ lon.t # "none"
            THEN /\ Len(InvokeEvents) = 1
                 /\ InvokeEvents[1].value = underlying
                 /\ DOMAIN InvokeEvents[1].kwargs = {"lat", "lon"}
                 /\ InvokeEvents[1].kwargs["lat"] = lat
                 /\ InvokeEvents[1].kwargs["lon"] = lon
            ELSE /\ toolLog = <<>>
                 /\ toolRet = Json([error |-> "Missing required parameters"])

\* city and coordinates are both given: only the city is forwarded
C2_Witness ==
    /\ toolOp.name = "fetch_weather_wrapper"
    /\ toolOp.kwargs["city"] = Str(London)
    /\ toolOp.kwargs["lat"] = Num(515074)
    /\ toolOp.kwargs["lon"] = Num(515074)
    /\ Len(InvokeEvents) = 1
    /\ DOMAIN InvokeEvents[1].kwargs = {"city"}

\* C9: on every call of a decorated function the attribute
\* gen_ai.tool.function_name of the current span is set to the wrapped
\* function's name before the wrapped function is invoked, on every path
\* of the wrapper.
C9_AttributeBeforeInvoke ==
    \A i \in 1..Len(toolLog) :
        toolLog[i].ev = "invoke" =>
            /\ \E j \in 1..(i - 1) :
                   /\ toolLog[j].ev = "set_attribute"
                   /\ toolLog[j].key = "gen_ai.tool.function_name"
                   /\ toolLog[j].value = toolLog[i].value
            /\ "gen_ai.tool.function_name" \in DOMAIN spanAttrs
            /\ spanAttrs["gen_ai.tool.function_name"] = toolLog[i].value

\* the coordinate-string path: 'args' parsed as lat,lon
C9_Witness ==
    /\ toolOp.name = "fetch_air_quality"
    /\ "args" \in DOMAIN toolOp.kwargs
    /\ Len(toolLog) = 2
    /\ toolLog[1].ev = "set_attribute"
    /\ toolLog[2].ev = "invoke"
    /\ DOMAIN toolLog[2].kwargs = {"lat", "lon"}
    /\ toolLog[2].kwargs["lat"] = Num(515000)
    /\ toolLog[2].kwargs["lon"] = Num(-1000)
    /\ spanAttrs["gen_ai.tool.function_name"] = "fetch_air_quality"

\* ------------------------------------------------------------------------
\* Claims about fetch_weather of 1_external_api_call.py
\* ------------------------------------------------------------------------
SevenFields ==
    {"city", "temperature", "feels_like", "description", "wind_speed", "humidity", "uvi"}

\* C10 (as claimed): fetch_weather returns a JSON string for every outcome
\* of its two HTTP calls: "City not found" and no weather request when
\* geocoding answers non-200 or with an empty list; "Failed to retrieve
\* weather data" when the weather request answers non-200; the seven-field
\* result for the city on every 200 weather answer, an empty
\* current.weather list included.
C10_AlwaysJson ==
    Len(fwLog) > 0 =>
        IF fwOp.geo.status # 200 \/ Len(fwOp.geo.body) = 0
        THEN /\ fwRet = Json([error |-> "City not found"])
             /\ Len(fwLog) = 1
        ELSE IF fwOp.weather.status # 200
        THEN fwRet = Json([error |-> "Failed to retrieve weather data"])
        ELSE /\ fwRet.kind = "json"
             /\ DOMAIN fwRet.value = SevenFields
             /\ fwRet.value.city = fwOp.location

\* ------------------------------------------------------------------------
\* Claims about the function-calling agent scripts
\* ------------------------------------------------------------------------
Issued == SelectSeq(remoteLog, LAMBDA e : e.ev = "issue")

IsPrefixOf(log, calls) ==
    /\ Len(log) <= Len(calls)
    /\ \A i \in 1..Len(log) : log[i].call = calls[i]

\* every call is issued after the one before it has returned, and nothing
\* is issued after a call raised
OneAfterAnother ==
    \A i \in 1..Len(remoteLog) :
        IF remoteLog[i].ev = "issue"
        THEN i > 1 => remoteLog[i - 1].ev = "return"
        ELSE /\ i > 1
             /\ remoteLog[i - 1] = RemoteEvent("issue", remoteLog[i].call)

SixCalls ==
    <<"create_agent", "create_thread", "create_message",
      "create_and_process_run", "list_messages", "delete_agent">>

\* C3 (as claimed): in every function-calling agent script the remote calls
\* are issued one after another in the order create_agent, create_thread,
\* create_message, create_and_process_run, list_messages, delete_agent,
\* each at most once, and none after delete_agent.
C3_SixCallsInOrder ==
    /\ OneAfterAnother
    /\ IsPrefixOf(Issued, SixCalls)

\* C3 (amended): the same, except that main of the function-sequencing
\* copy script also issues list_run_steps, once, between
\* create_and_process_run and list_messages.
C3_CallsInOrder ==
    /\ OneAfterAnother
    /\ IsPrefixOf(Issued,
           IF script = "function_sequencing_copy"
           THEN <<"create_agent", "create_thread", "create_message",
                  "create_and_process_run", "list_run_steps", "list_messages",
                  "delete_agent">>
           ELSE SixCalls)

\* main of the function-sequencing copy script has run to its end:
\* seven calls, list_run_steps the fifth, delete_agent returned last
C3_Witness ==
    /\ script = "function_sequencing_copy"
    /\ Len(remoteLog) = 14
    /\ remoteLog[9] = RemoteEvent("issue", "list_run_steps")
    /\ remoteLog[14] = RemoteEvent("return", "delete_agent")
    /\ ~inFlight

RunReturned ==
    \E i \in 1..Len(remoteLog) :
        remoteLog[i] = RemoteEvent("return", "create_and_process_run")

\* the calls issued after create_and_process_run was issued
IssuedAfterRun ==
    SelectSeq(Issued, LAMBDA e : e.call \in {"list_run_steps", "list_messages",
                                             "delete_agent"})

AgentDeleted ==
    /\ remoteLog # <<>>
    /\ remoteLog[Len(remoteLog)] = RemoteEvent("return", "delete_agent")

\* C12: the agent is deleted once the script is finished, also when the
\* run fails: after create_and_process_run returned a run with status
\* "failed" the script goes on as after a completed run; it lists the
\* thread's messages (the copy script's main lists the run steps first) and
\* then calls delete_agent, unless one of these calls raises.
C12_DeletedAfterFailedRun ==
    /\ [](runStatus = "failed" =>
            /\ RunReturned
            /\ IsPrefixOf(IssuedAfterRun,
                   IF script = "function_sequencing_copy"
                   THEN <<"list_run_steps", "list_messages", "delete_agent">>
                   ELSE <<"list_messages", "delete_agent">>))
    /\ (runStatus = "failed") ~> (aborted \/ AgentDeleted)

\* a script whose run failed has listed the messages and deleted its agent
C12_Witness ==
    /\ runStatus = "failed"
    /\ ~aborted
    /\ AgentDeleted
    /\ \E i \in 1..Len(remoteLog) : remoteLog[i] = RemoteEvent("return", "list_messages")

\* ------------------------------------------------------------------------
\* Claims about the conversation of 3_short_term_mem.py
\* ------------------------------------------------------------------------
\* C13: run_agent never raises: an exception raised while the run is
\* processed or the messages are listed makes it return None, the loop goes
\* on with the next user input, and after the last input delete_thread is
\* called once, for the session's thread. (Only an exception out of
\* manage_messages ends the script inside the loop.)
C13_RunAgentNeverRaises ==
    /\ runExc => runRet = NoneV
    /\ sessPc = "crashed" => mmCrashed
    /\ sessPc \in {"manage", "run", "crashed"} =>
           /\ sessI < 7
           /\ deleteLog = <<>>
           /\ Len(mmInputs) = IF sessPc = "manage" THEN sessI ELSE sessI + 1
    /\ sessPc = "cleanup" => sessI = 7 /\ Len(mmInputs) = 7 /\ deleteLog = <<>>
    /\ sessPc = "done" => sessI = 7 /\ deleteLog = <<"thread_1">>

\* the run for the last input raised, and the thread was deleted
C13_Witness ==
    /\ sessPc = "done"
    /\ runExc
    /\ runRet = NoneV
    /\ deleteLog = <<"thread_1">>

\* C14 (as claimed): when run_agent gets through its try block, what it
\* returns is the text of the assistant message the run just added, the
\* newest message of the thread; it returns "No response received." only
\* when the thread has no message.
C14_LatestResponse ==
    /\ (sessI > 0 /\ ~runExc /\ lastReply # NoneV) => runRet = lastReply
    /\ runRet = Str(<<"No response received.">>) => thread = <<>>

\* ------------------------------------------------------------------------
\* Claims about two executions of 3_long_term_mem.py
\* ------------------------------------------------------------------------
ThreadIdsOfUser == {table[i].thread_id : i \in {k \in 1..Len(table) : table[k].user_id = "user_123"}}

\* C15 (as claimed): all ChatMessages rows of one user carry a single
\* thread_id also when two executions for the same user, who has no stored
\* row yet, interleave their get_or_create_thread and store_message steps.
C15_SingleThreadId == Cardinality(ThreadIdsOfUser) <= 1

\* C15 (amended): every execution whose get_or_create_thread runs before
\* the user's first row is committed creates a thread of its own and
\* stores its rows under it; the user's rows carry at most as many
\* thread_ids as there are such executions, and every row carries the
\* thread_id of an execution that has looked its thread up.
C15_ThreadPerLookupWithoutRow ==
    /\ Cardinality(ThreadIdsOfUser) <= Cardinality({e \in {"A", "B"} : sawNoRow[e]})
    /\ \A t \in ThreadIdsOfUser : \E e \in {"A", "B"} : rpc[e] # "start" /\ rThread[e] = t
    /\ \A e \in {"A", "B"} : (rpc[e] # "start" /\ ~sawNoRow[e]) => rThread[e] \in ThreadIdsOfUser

\* both executions looked up the thread before either stored a row, both
\* ran to their end: the user's rows carry two thread_ids
C15_Witness ==
    /\ \A e \in {"A", "B"} : sawNoRow[e] /\ rpc[e] = "done"
    /\ Cardinality(ThreadIdsOfUser) = 2
    /\ Len(table) = 4

\* ------------------------------------------------------------------------
\* Claims about start-up
\* ------------------------------------------------------------------------
Missing(name) == env[name].t = "none" \/ env[name] = Str(<<>>)

\* C11: a script that validates its environment stops (exit code 1 or
\* ValueError) before it constructs the client and before any remote call
\* whenever a required variable is missing or empty:
\* PROJECT_CONNECTION_STRING in every such script, also OPEN_WEATHER_API_KEY
\* in the external-API script, also MODEL_DEPLOYMENT_NAME and
\* BING_CONNECTION_NAME in the web-search script.
C11_StopsBeforeClient ==
    LET required ==
            IF envScript = "long_term_mem" THEN {}
            ELSE {"PROJECT_CONNECTION_STRING"}
                 \cup (IF envScript = "external_api_call"
                       THEN {"OPEN_WEATHER_API_KEY"} ELSE {})
                 \cup (IF envScript = "web_search"
                       THEN {"MODEL_DEPLOYMENT_NAME", "BING_CONNECTION_NAME"} ELSE {})
    IN  (\E n \in required : Missing(n)) =>
            /\ envPc \in {"start", "exit(1)", "ValueError"}
            /\ envPc = "exit(1)" =>
                   envScript \in {"azure_ai_agent_service_setup", "short_term_mem",
                                  "web_search"}

\* the external-API script has its connection string, but an empty
\* OPEN_WEATHER_API_KEY: it stopped with ValueError
C11_Witness ==
    /\ envScript = "external_api_call"
    /\ env["PROJECT_CONNECTION_STRING"] = Str(<<"x">>)
    /\ env["OPEN_WEATHER_API_KEY"] = Str(<<>>)
    /\ envPc = "ValueError"

====
